---- MODULE Spec2Model ----
(***************************************************************************)
(* Reference-counted font registry and shaped-text buffer pool of          *)
(* lib/ui/src/fonts.rs: the shared FontsContainer behind Rc<RefCell<..>>,  *)
(* the Font / Buffer / BufferRef handles and the Fonts facade.             *)
(***************************************************************************)
EXTENDS Bags, FiniteSets, Integers, Sequences, TLC

\* ---------------------------------------------------------------- bounds
MaxHandles == 3      \* owning handles (Font + Buffer) the client holds at once
MaxBuffers == 2      \* buffer entries alive at once
MaxFontIndex == 1    \* face indices 0..MaxFontIndex offered by the font source
MaxWeak == 1         \* BufferRef values the client keeps
MaxScale == 3        \* factors a of the transforms x |-> a * x + b
MaxShift == 3        \* offsets b of the transforms x |-> a * x + b
MaxNest == 2         \* Font::outline calls in progress at once
MaxOutput == 3       \* length up to which the client reuses an output vector

\* ------------------------------------------------- external collaborators
\* Descriptors the platform font source can select (font_kit Handle).
PathBytes == {<<97>>}
MemoryBytes == {<<97>>, <<98>>}
FontIndices == 0..MaxFontIndex

Handles ==
  [kind : {"Path"}, bytes : PathBytes, font_index : FontIndices]
    \cup [kind : {"Memory"}, bytes : MemoryBytes, font_index : FontIndices]

\* select_best_match: Err(_) or Ok(handle)
SelectErr == [kind |-> "Err", bytes |-> <<>>, font_index |-> 0]
SelectOutcomes == Handles \cup {SelectErr}

Texts == {<<65>>, <<65, 66>>}

\* Option<T>
None == <<>>
Some(v) == <<v>>
IsSome(o) == o # <<>>
unwrap(o) == o[1]

\* hb::UnicodeBuffer: the code points added so far
UnicodeBuffer_new == <<>>
add_str(unicode_buffer, text) == unicode_buffer \o text

\* hb::shape: the GlyphBuffer of a unicode buffer shaped against a font
\* binding, one glyph per code point; glyph ids and advances depend on the
\* code point and on the face.
hb_shape(hb_font, unicode_buffer) ==
  [infos |-> [i \in 1..Len(unicode_buffer) |->
                [codepoint |-> unicode_buffer[i] + hb_font.font_index,
                 cluster |-> i - 1]],
   positions |-> [i \in 1..Len(unicode_buffer) |->
                    [x_advance |-> unicode_buffer[i] - 60 + hb_font.font_index,
                     y_advance |-> 0, x_offset |-> 0, y_offset |-> 0]]]

\* hb::GlyphBuffer::clear: the workspace handed back as an empty UnicodeBuffer
clear(glyph_buffer) == UnicodeBuffer_new

\* na::Projective3<f32>: a homogeneous matrix, here of the affine maps
\* x |-> a * x + b of the line (rows <<a, b>> and <<0, 1>>); `*` is the
\* matrix product and a transform is applied to a point as matrix * point.
MatMul(m, n) ==
  [i \in 1..2 |-> [j \in 1..2 |-> m[i][1] * n[1][j] + m[i][2] * n[2][j]]]
TransformPoint(m, x) == m[1][1] * x + m[1][2]

Identity == <<<<1, 0>>, <<0, 1>>>>

\* font_kit Font accessors: the name and the glyph count are those of the
\* face the descriptor selects; outline either emits the glyph's segments
\* into the path builder or fails with a GlyphLoadingError
fk_full_name(fk_font) == <<"full_name", fk_font.bytes, fk_font.font_index>>
fk_glyph_count(fk_font) == 256 + fk_font.font_index
fk_outline(fk_font, glyph_loaded) ==
  IF glyph_loaded THEN <<"Ok", fk_font.bytes, fk_font.font_index>>
  ELSE <<"Err", "GlyphLoadingError">>

\* parent transforms the client passes to get_buffer_transform
ParentTransforms == {Identity, <<<<2, 1>>, <<0, 1>>>>}

\* --------------------------------------------------------- fingerprinting
\* cursor.write_u32::<LittleEndian>(font_index)
WriteU32LE(n) ==
  <<n % 256, (n \div 256) % 256, (n \div 65536) % 256, (n \div 16777216) % 256>>

\* Sha1 as an ideal digest: equal outputs exactly for equal inputs.
Sha1(input) == <<"sha1", input>>

\* Both arms hash the content bytes followed by the little-endian face
\* index; the variant of the handle is not part of the input.
generate_fingerprint(handle) ==
  Sha1(handle.bytes \o WriteU32LE(handle.font_index))

\* ------------------------------------------------------------------- Slab
\* slab::Slab: entries are Occupied(val) or Vacant(next free key); `next`
\* is the key the following insert uses.  Keys are 0-based.
SlabNew == [entries |-> <<>>, next |-> 0]

SlabContains(s, key) ==
  /\ key \in 0..(Len(s.entries) - 1)
  /\ s.entries[key + 1].occ

SlabGet(s, key) == s.entries[key + 1].val

SlabKeys(s) == {k \in 0..(Len(s.entries) - 1) : s.entries[k + 1].occ}

SlabInsert(s, val) ==
  IF s.next = Len(s.entries)
  THEN [entries |-> Append(s.entries, [occ |-> TRUE, val |-> val]),
        next |-> s.next + 1]
  ELSE [entries |-> [s.entries EXCEPT ![s.next + 1] = [occ |-> TRUE, val |-> val]],
        next |-> s.entries[s.next + 1].next]

SlabRemove(s, key) ==
  [entries |-> [s.entries EXCEPT ![key + 1] = [occ |-> FALSE, next |-> s.next]],
   next |-> key]

SlabSet(s, key, val) ==
  [s EXCEPT !.entries[key + 1] = [occ |-> TRUE, val |-> val]]

\* ------------------------------------------------------------------ state
VARIABLES
  fonts,                 \* Slab<[u8; 20]>: id -> fingerprint
  fonts_fingerprint_id,  \* fingerprint -> id
  fonts_id_prop,         \* id -> FontData
  buffers,               \* Slab<BufferData>
  borrow,                \* RefCell flag: 0 unused, -1 exclusive, n > 0 shared
  fontHandles,           \* bag of Font handles held by the client (by id)
  bufHandles,            \* bag of Buffer handles held by the client
  weakRefs,              \* BufferRef values held by the client
  pc,                    \* position inside the operation in progress
  cur,                   \* locals of the operation in progress, and the
                         \* Font::outline calls whose path builder is running
  ret,                   \* outcome of the last completed operation
  bal                    \* history: the run of duplications and releases of
                         \* one handle that the last operations form

tables == <<fonts, fonts_fingerprint_id, fonts_id_prop, buffers>>
clientVars == <<fontHandles, bufHandles, weakRefs>>
vars == <<fonts, fonts_fingerprint_id, fonts_id_prop, buffers, borrow,
          fontHandles, bufHandles, weakRefs, pc, cur, ret, bal>>

Container ==
  [fonts |-> fonts, fonts_fingerprint_id |-> fonts_fingerprint_id,
   fonts_id_prop |-> fonts_id_prop, buffers |-> buffers]

SetContainer(c) ==
  /\ fonts' = c.fonts
  /\ fonts_fingerprint_id' = c.fonts_fingerprint_id
  /\ fonts_id_prop' = c.fonts_id_prop
  /\ buffers' = c.buffers

\* map helpers (HashMap insert / remove)
MapInsert(m, k, v) == [x \in DOMAIN m \cup {k} |-> IF x = k THEN v ELSE m[x]]
MapRemove(m, k) == [x \in DOMAIN m \ {k} |-> m[x]]
EmptyMap == [x \in {} |-> 0]

\* result of a container method: the container after the call, the value
\* returned, and the panic message when the call unwinds
Done(c, kind, id, font_id) ==
  [c |-> c, kind |-> kind, id |-> id, font_id |-> font_id, msg |-> ""]
Panic(c, msg) ==
  [c |-> c, kind |-> "panic", id |-> -1, font_id |-> -1, msg |-> msg]


\* ------------------------------------------------- FontsContainer methods
FontsContainer_new ==
  [fonts |-> SlabNew, fonts_fingerprint_id |-> EmptyMap,
   fonts_id_prop |-> EmptyMap, buffers |-> SlabNew]

\* FontsContainer::get
get(c, id) == id \in DOMAIN c.fonts_id_prop

BufferData_new(font_id, font_data, text) ==
  [text |-> text, transform |-> Identity,
   buffer |-> Some(hb_shape(font_data.hb_font, add_str(UnicodeBuffer_new, text))),
   font_id |-> font_id, count |-> 1]

\* mutant: a buffer with the same font and text is shared, not created
create_buffer_Dedup(c, font_id, text) ==
  IF ~get(c, font_id)
  THEN Panic(c, "FontsContainer::create_buffer - self.get(font_id)")
  ELSE LET same == {k \in SlabKeys(c.buffers) :
                      /\ SlabGet(c.buffers, k).font_id = font_id
                      /\ SlabGet(c.buffers, k).text = text}
       IN IF same # {}
          THEN LET k == CHOOSE x \in same : TRUE
               IN Done([c EXCEPT !.buffers =
                          SlabSet(@, k, [SlabGet(c.buffers, k) EXCEPT !.count = @ + 1])],
                       "id", k, font_id)
          ELSE Done([c EXCEPT !.buffers =
                       SlabInsert(@, BufferData_new(font_id, c.fonts_id_prop[font_id], text))],
                    "id", c.buffers.next, font_id)

create_buffer(c, font_id, text) ==
  IF ~get(c, font_id)
  THEN Panic(c, "FontsContainer::create_buffer - self.get(font_id)")
  ELSE Done([c EXCEPT !.buffers =
                SlabInsert(@, BufferData_new(font_id, c.fonts_id_prop[font_id], text))],
            "id", c.buffers.next, font_id)

\* result of a reading method: the value returned (or the output vector
\* after the call), or the panic message
Read(out) == [kind |-> "unit", msg |-> "", out |-> out]
ReadPanic(msg) == [kind |-> "panic", msg |-> msg, out |-> <<>>]

\* BufferData::shape: the GlyphBuffer is taken out of the slot (leaving
\* None), cleared into a UnicodeBuffer, filled with self.text and shaped;
\* the result is put back as Some
shape(data, font_data) ==
  IF ~IsSome(data.buffer)
  THEN [data |-> data, panic |-> TRUE]
  ELSE LET taken == unwrap(data.buffer)
           emptied == [data EXCEPT !.buffer = None]
           unicode_buffer == add_str(clear(taken), emptied.text)
       IN [data |-> [emptied EXCEPT !.buffer =
                       Some(hb_shape(font_data.hb_font, unicode_buffer))],
           panic |-> FALSE]

\* mutant: push_str without the clear() before it
replace_NoClear(data, font_data, text) ==
  shape([data EXCEPT !.text = @ \o text], font_data)

\* BufferData::replace
replace(data, font_data, text) ==
  LET cleared == [data EXCEPT !.text = <<>>]
      pushed == [cleared EXCEPT !.text = @ \o text]
  IN shape(pushed, font_data)

\* mutant: the glyph infos are walked from the last to the first
positions_Reversed(data, output) ==
  IF ~IsSome(data.buffer)
  THEN ReadPanic("expected glyph buffer to always contain glyph output")
  ELSE LET buffer_data == unwrap(data.buffer)
           n == Len(buffer_data.positions)
       IN Read(output \o
                 [i \in 1..n |->
                    [id |-> buffer_data.infos[n + 1 - i].codepoint,
                     cluster |-> buffer_data.infos[n + 1 - i].cluster,
                     x_advance |-> buffer_data.positions[i].x_advance,
                     y_advance |-> buffer_data.positions[i].y_advance,
                     x_offset |-> buffer_data.positions[i].x_offset,
                     y_offset |-> buffer_data.positions[i].y_offset]])

\* BufferData::positions: output.extend(positions zipped with infos)
positions(data, output) ==
  IF ~IsSome(data.buffer)
  THEN ReadPanic("expected glyph buffer to always contain glyph output")
  ELSE LET buffer_data == unwrap(data.buffer)
           n == IF Len(buffer_data.positions) <= Len(buffer_data.infos)
                THEN Len(buffer_data.positions) ELSE Len(buffer_data.infos)
       IN Read(output \o
                 [i \in 1..n |->
                    [id |-> buffer_data.infos[i].codepoint,
                     cluster |-> buffer_data.infos[i].cluster,
                     x_advance |-> buffer_data.positions[i].x_advance,
                     y_advance |-> buffer_data.positions[i].y_advance,
                     x_offset |-> buffer_data.positions[i].x_offset,
                     y_offset |-> buffer_data.positions[i].y_offset]])

buffer_glyphs(c, buffer_id, output) ==
  IF ~SlabContains(c.buffers, buffer_id)
  THEN ReadPanic("buffer_glyph_ids: self.buffers.get(buffer_id)")
  ELSE positions(SlabGet(c.buffers, buffer_id), output)

\* self.buffers[buffer_id].transform * parent_absolute_transform
get_buffer_transform(c, buffer_id, parent_absolute_transform) ==
  IF ~SlabContains(c.buffers, buffer_id)
  THEN ReadPanic("invalid key")
  ELSE Read(MatMul(SlabGet(c.buffers, buffer_id).transform,
                   parent_absolute_transform))

get_and_inc_buffer(c, id) ==
  IF ~SlabContains(c.buffers, id)
  THEN Done(c, "None", -1, -1)
  ELSE LET data == SlabGet(c.buffers, id)
       IN Done([c EXCEPT !.buffers = SlabSet(@, id, [data EXCEPT !.count = @ + 1])],
               "Some", id, data.font_id)

\* mutant: the entry is found but its count is not raised
inc_buffer_NoCount(c, id) ==
  IF ~SlabContains(c.buffers, id)
  THEN Panic(c, "inc_buffer: self.buffers.get_mut(id)")
  ELSE Done(c, "unit", id, SlabGet(c.buffers, id).font_id)

inc_buffer(c, id) ==
  IF ~SlabContains(c.buffers, id)
  THEN Panic(c, "inc_buffer: self.buffers.get_mut(id)")
  ELSE LET data == SlabGet(c.buffers, id)
       IN Done([c EXCEPT !.buffers = SlabSet(@, id, [data EXCEPT !.count = @ + 1])],
               "unit", id, data.font_id)

delete_buffer(c, id) == [c EXCEPT !.buffers = SlabRemove(@, id)]

\* mutant: the entry stays in the pool at refcount 0
dec_buffer_NeverDeletes(c, id) ==
  IF ~SlabContains(c.buffers, id)
  THEN Panic(c, "dec_buffer: self.buffers.get_mut(id)")
  ELSE LET data == SlabGet(c.buffers, id)
       IN IF data.count = 0
          THEN Panic(c, "attempt to subtract with overflow")
          ELSE Done([c EXCEPT !.buffers =
                       SlabSet(@, id, [data EXCEPT !.count = @ - 1])],
                    "unit", id, data.font_id)

dec_buffer(c, id) ==
  IF ~SlabContains(c.buffers, id)
  THEN Panic(c, "dec_buffer: self.buffers.get_mut(id)")
  ELSE LET data == SlabGet(c.buffers, id)
       IN IF data.count = 0
          THEN Panic(c, "attempt to subtract with overflow")
          ELSE LET c1 == [c EXCEPT !.buffers =
                             SlabSet(@, id, [data EXCEPT !.count = @ - 1])]
                   delete == data.count - 1 <= 0
               IN Done(IF delete THEN delete_buffer(c1, id) ELSE c1,
                       "unit", id, data.font_id)

inc_font(c, id) ==
  IF id \notin DOMAIN c.fonts_id_prop
  THEN Panic(c, "inc_font: self.fonts_id_prop.get_mut(&id)")
  ELSE Done([c EXCEPT !.fonts_id_prop[id].count = @ + 1], "unit", -1, id)

get_and_inc_font(c, id) ==
  IF id \notin DOMAIN c.fonts_id_prop
  THEN Done(c, "None", -1, -1)
  ELSE Done([c EXCEPT !.fonts_id_prop[id].count = @ + 1], "Some", -1, id)

\* mutant: the fingerprint -> id mapping survives the eviction
delete_font_StaleFingerprint(c, id) ==
  IF id \notin DOMAIN c.fonts_id_prop
  THEN Panic(c, "delete_font: self.fonts_id_prop[&id]")
  ELSE IF ~SlabContains(c.fonts, id)
  THEN Panic([c EXCEPT !.fonts_id_prop = MapRemove(@, id)], "invalid key")
  ELSE Done([fonts |-> SlabRemove(c.fonts, id),
             fonts_fingerprint_id |-> c.fonts_fingerprint_id,
             fonts_id_prop |-> MapRemove(c.fonts_id_prop, id),
             buffers |-> c.buffers],
            "unit", -1, id)

\* mutant: the whole fingerprint map is cleared instead of one key removed
delete_font_ClearsFingerprints(c, id) ==
  IF id \notin DOMAIN c.fonts_id_prop
  THEN Panic(c, "delete_font: self.fonts_id_prop[&id]")
  ELSE IF ~SlabContains(c.fonts, id)
  THEN Panic([c EXCEPT !.fonts_id_prop = MapRemove(@, id)], "invalid key")
  ELSE Done([fonts |-> SlabRemove(c.fonts, id),
             fonts_fingerprint_id |-> EmptyMap,
             fonts_id_prop |-> MapRemove(c.fonts_id_prop, id),
             buffers |-> c.buffers],
            "unit", -1, id)

delete_font(c, id) ==
  IF id \notin DOMAIN c.fonts_id_prop
  THEN Panic(c, "delete_font: self.fonts_id_prop[&id]")
  ELSE IF ~SlabContains(c.fonts, id)
  THEN Panic([c EXCEPT !.fonts_id_prop = MapRemove(@, id)], "invalid key")
  ELSE LET fingerprint == SlabGet(c.fonts, id)
       IN Done([fonts |-> SlabRemove(c.fonts, id),
                fonts_fingerprint_id |-> MapRemove(c.fonts_fingerprint_id, fingerprint),
                fonts_id_prop |-> MapRemove(c.fonts_id_prop, id),
                buffers |-> c.buffers],
               "unit", -1, id)

\* mutant: the entry is deleted while one reference is left
dec_font_OffByOne(c, id) ==
  IF id \notin DOMAIN c.fonts_id_prop
  THEN Panic(c, "dec_font: self.fonts.get_mut(id)")
  ELSE LET c1 == [c EXCEPT !.fonts_id_prop[id].count = @ - 1]
           delete == c1.fonts_id_prop[id].count <= 1
       IN IF delete THEN delete_font(c1, id) ELSE Done(c1, "unit", -1, id)

dec_font(c, id) ==
  IF id \notin DOMAIN c.fonts_id_prop
  THEN Panic(c, "dec_font: self.fonts.get_mut(id)")
  ELSE IF c.fonts_id_prop[id].count = 0
  THEN Panic(c, "attempt to subtract with overflow")
  ELSE LET c1 == [c EXCEPT !.fonts_id_prop[id].count = @ - 1]
           delete == c1.fonts_id_prop[id].count <= 0
       IN IF delete THEN delete_font(c1, id) ELSE Done(c1, "unit", -1, id)

\* find_best_match: `selected` is the outcome of select_best_match; load_ok,
\* face_ok and funcs_ok are the outcomes of font_handle.load(),
\* hb::Face::from_file and set_rusttype_funcs.  `load` tells whether the
\* font loader was called.
FbmDone(c, kind, id, load) ==
  [c |-> c, kind |-> kind, id |-> -1, font_id |-> id, msg |-> "", load |-> load]
FbmPanic(c, msg, load) ==
  [c |-> c, kind |-> "panic", id |-> -1, font_id |-> -1, msg |-> msg, load |-> load]

\* mutant: the slab id is allocated before set_rusttype_funcs is tried
load_font_PartialInsert(c, selected, fingerprint, load_ok, face_ok, funcs_ok) ==
  IF ~load_ok THEN FbmDone(c, "None", -1, TRUE)
  ELSE IF selected.kind = "Memory"
  THEN FbmPanic(c, "not implemented: can not load fonts from memory", TRUE)
  ELSE IF ~face_ok THEN FbmDone(c, "None", -1, TRUE)
  ELSE IF ~funcs_ok
  THEN FbmDone([c EXCEPT !.fonts = SlabInsert(@, fingerprint)], "None", -1, TRUE)
  ELSE LET new_id == c.fonts.next
           data == [fk_font |-> selected, hb_font |-> selected, count |-> 1]
       IN FbmDone([fonts |-> SlabInsert(c.fonts, fingerprint),
                   fonts_fingerprint_id |->
                     MapInsert(c.fonts_fingerprint_id, fingerprint, new_id),
                   fonts_id_prop |-> MapInsert(c.fonts_id_prop, new_id, data),
                   buffers |-> c.buffers],
                  "Some", new_id, TRUE)

\* mutant: a Memory handle is loaded like a Path handle
load_font_MemorySupported(c, selected, fingerprint, load_ok, face_ok, funcs_ok) ==
  IF ~load_ok THEN FbmDone(c, "None", -1, TRUE)
  ELSE IF ~face_ok THEN FbmDone(c, "None", -1, TRUE)
  ELSE IF ~funcs_ok THEN FbmDone(c, "None", -1, TRUE)
  ELSE LET new_id == c.fonts.next
           data == [fk_font |-> selected, hb_font |-> selected, count |-> 1]
       IN FbmDone([fonts |-> SlabInsert(c.fonts, fingerprint),
                   fonts_fingerprint_id |->
                     MapInsert(c.fonts_fingerprint_id, fingerprint, new_id),
                   fonts_id_prop |-> MapInsert(c.fonts_id_prop, new_id, data),
                   buffers |-> c.buffers],
                  "Some", new_id, TRUE)

\* the None arm of `match id`: load the font, build the harfbuzz face
\* and font, then insert into the three tables
load_font(c, selected, fingerprint, load_ok, face_ok, funcs_ok) ==
  IF ~load_ok THEN FbmDone(c, "None", -1, TRUE)
  ELSE IF selected.kind = "Memory"
  THEN FbmPanic(c, "not implemented: can not load fonts from memory", TRUE)
  ELSE IF ~face_ok THEN FbmDone(c, "None", -1, TRUE)
  ELSE IF ~funcs_ok THEN FbmDone(c, "None", -1, TRUE)
  ELSE LET new_id == c.fonts.next
           data == [fk_font |-> selected, hb_font |-> selected, count |-> 1]
       IN FbmDone([fonts |-> SlabInsert(c.fonts, fingerprint),
                   fonts_fingerprint_id |->
                     MapInsert(c.fonts_fingerprint_id, fingerprint, new_id),
                   fonts_id_prop |-> MapInsert(c.fonts_id_prop, new_id, data),
                   buffers |-> c.buffers],
                  "Some", new_id, TRUE)

\* the Some(id) arm of `match id`
retain_font(c, id) ==
  LET r == inc_font(c, id)
  IN IF r.kind = "panic" THEN FbmPanic(r.c, r.msg, FALSE)
     ELSE FbmDone(r.c, "Some", id, FALSE)

\* mutant: the fingerprint is not looked up before loading
find_best_match_NoLookup(c, selected, load_ok, face_ok, funcs_ok) ==
  IF selected.kind = "Err" THEN FbmDone(c, "None", -1, FALSE)
  ELSE load_font(c, selected, generate_fingerprint(selected),
                 load_ok, face_ok, funcs_ok)

find_best_match(c, selected, load_ok, face_ok, funcs_ok) ==
  IF selected.kind = "Err" THEN FbmDone(c, "None", -1, FALSE)
  ELSE
    LET fingerprint == generate_fingerprint(selected) IN
    IF fingerprint \in DOMAIN c.fonts_fingerprint_id
    THEN retain_font(c, c.fonts_fingerprint_id[fingerprint])
    ELSE load_font(c, selected, fingerprint, load_ok, face_ok, funcs_ok)

\* ------------------------------------------------------- client and facade
NoCur == [id |-> -1, font_id |-> -1, text |-> <<>>, outlines |-> <<>>]

Ret(op, kind, id, font_id, arg, msg, load) ==
  [op |-> op, kind |-> kind, id |-> id, font_id |-> font_id, arg |-> arg,
   msg |-> msg, load |-> load, out |-> <<>>]

\* History of the last operations: `ups` duplications of a handle to
\* (kind, id) followed by `downs` releases of it, and the container as it was
\* before the first of them.  Any other operation ends the run.
NoBal ==
  [active |-> FALSE, kind |-> "", id |-> -1, ups |-> 0, downs |-> 0,
   snap |-> FontsContainer_new]

BalClone(kind, id) ==
  IF bal.active /\ bal.kind = kind /\ bal.id = id /\ bal.downs = 0
  THEN [bal EXCEPT !.ups = @ + 1]
  ELSE [active |-> TRUE, kind |-> kind, id |-> id, ups |-> 1, downs |-> 0,
        snap |-> Container]

BalDrop(kind, id) ==
  IF bal.active /\ bal.kind = kind /\ bal.id = id /\ bal.downs < bal.ups
  THEN [bal EXCEPT !.downs = @ + 1]
  ELSE NoBal

NumHandles == BagCardinality(fontHandles) + BagCardinality(bufHandles)

BagAdd(b, e) == b (+) SetToBag({e})
BagDel(b, e) == b (-) SetToBag({e})

BufferHandle(id, font_id) == [id |-> id, font_id |-> font_id]

FontLookupIds == 0..(MaxFontIndex + 1)
BufferLookupIds == 0..MaxBuffers

\* Fonts::new
Init ==
  /\ fonts = FontsContainer_new.fonts
  /\ fonts_fingerprint_id = FontsContainer_new.fonts_fingerprint_id
  /\ fonts_id_prop = FontsContainer_new.fonts_id_prop
  /\ buffers = FontsContainer_new.buffers
  /\ borrow = 0
  /\ fontHandles = EmptyBag
  /\ bufHandles = EmptyBag
  /\ weakRefs = {}
  /\ pc = "idle"
  /\ cur = NoCur
  /\ ret = Ret("new", "unit", -1, -1, -1, "", FALSE)
  /\ bal = NoBal

\* a panic unwinds out of the operation: the RefMut guard is released and
\* the program stops
Abort(op, c, arg, msg) ==
  /\ SetContainer(c)
  /\ borrow' = 0
  /\ pc' = "aborted"
  /\ cur' = NoCur
  /\ ret' = Ret(op, "abort", -1, -1, arg, msg, FALSE)
  /\ bal' = NoBal

BorrowMutError == "already borrowed: BorrowMutError"

\* Fonts::find_best_match
FindBestMatch(selected, load_ok, face_ok, funcs_ok) ==
  /\ pc = "idle"
  /\ IF borrow # 0
     THEN Abort("find_best_match", Container, selected, BorrowMutError)
          /\ UNCHANGED clientVars
     ELSE LET r == find_best_match(Container, selected, load_ok, face_ok, funcs_ok)
          IN IF r.kind = "panic"
             THEN /\ Abort("find_best_match", r.c, selected, r.msg)
                  /\ UNCHANGED clientVars
             ELSE /\ r.kind = "Some" => NumHandles < MaxHandles
                  /\ SetContainer(r.c)
                  /\ fontHandles' = IF r.kind = "Some"
                                    THEN BagAdd(fontHandles, r.font_id)
                                    ELSE fontHandles
                  /\ ret' = Ret("find_best_match", r.kind, -1, r.font_id,
                                selected, "", r.load)
                  /\ bal' = NoBal
                  /\ UNCHANGED <<borrow, bufHandles, weakRefs, pc, cur>>

\* Fonts::font_from_id
FontFromId(id) ==
  /\ pc = "idle"
  /\ IF borrow # 0
     THEN Abort("font_from_id", Container, id, BorrowMutError)
          /\ UNCHANGED clientVars
     ELSE LET r == get_and_inc_font(Container, id)
          IN /\ r.kind = "Some" => NumHandles < MaxHandles
             /\ SetContainer(r.c)
             /\ fontHandles' = IF r.kind = "Some"
                               THEN BagAdd(fontHandles, r.font_id)
                               ELSE fontHandles
             /\ ret' = Ret("font_from_id", r.kind, -1, r.font_id, id, "", FALSE)
             /\ bal' = NoBal
             /\ UNCHANGED <<borrow, bufHandles, weakRefs, pc, cur>>

\* Fonts::buffer_from_id, first statement: borrow_mut, get_and_inc_buffer(buffer_id)?
BufferFromId(buffer_id) ==
  /\ pc = "idle"
  /\ IF borrow # 0
     THEN Abort("buffer_from_id", Container, buffer_id, BorrowMutError)
          /\ UNCHANGED clientVars
     ELSE LET r == get_and_inc_buffer(Container, buffer_id)
          IN /\ r.kind = "Some" => NumHandles < MaxHandles
             /\ SetContainer(r.c)
             /\ IF r.kind = "None"
                THEN /\ ret' = Ret("buffer_from_id", "None", -1, -1, buffer_id, "", FALSE)
                     /\ UNCHANGED <<borrow, pc, cur>>
                ELSE /\ borrow' = -1
                     /\ pc' = "buffer_from_id_font"
                     /\ cur' = [id |-> r.id, font_id |-> r.font_id, text |-> <<>>, outlines |-> <<>>]
                     /\ UNCHANGED ret
             /\ bal' = NoBal
             /\ UNCHANGED clientVars

\* mutant: the Buffer is built around a Font that was never counted
BufferFromIdFont_NoFontInc ==
  /\ pc = "buffer_from_id_font"
  /\ UNCHANGED tables
  /\ bufHandles' = BagAdd(bufHandles, BufferHandle(cur.id, cur.font_id))
  /\ ret' = Ret("buffer_from_id", "Some", cur.id, cur.font_id, cur.id, "", FALSE)
  /\ borrow' = 0
  /\ pc' = "idle"
  /\ cur' = NoCur
  /\ UNCHANGED <<fontHandles, weakRefs, bal>>

\* mutant: the pair returned by get_and_inc_buffer is read in the other
\* order, so the font is looked up by the buffer id
BufferFromIdFont_SwappedIds ==
  /\ pc = "buffer_from_id_font"
  /\ LET r == get_and_inc_font(Container, cur.id)
     IN /\ SetContainer(r.c)
        /\ bufHandles' = IF r.kind = "Some"
                         THEN BagAdd(bufHandles, BufferHandle(cur.id, r.font_id))
                         ELSE bufHandles
        /\ ret' = Ret("buffer_from_id", r.kind,
                      IF r.kind = "Some" THEN cur.id ELSE -1, r.font_id,
                      cur.id, "", FALSE)
  /\ borrow' = 0
  /\ pc' = "idle"
  /\ cur' = NoCur
  /\ UNCHANGED <<fontHandles, weakRefs, bal>>

\* Fonts::buffer_from_id, second statement: get_and_inc_font(font_id)?
BufferFromIdFont ==
  /\ pc = "buffer_from_id_font"
  /\ LET r == get_and_inc_font(Container, cur.font_id)
     IN /\ SetContainer(r.c)
        /\ bufHandles' = IF r.kind = "Some"
                         THEN BagAdd(bufHandles, BufferHandle(cur.id, r.font_id))
                         ELSE bufHandles
        /\ ret' = Ret("buffer_from_id", r.kind,
                      IF r.kind = "Some" THEN cur.id ELSE -1, r.font_id,
                      cur.id, "", FALSE)
  /\ borrow' = 0
  /\ pc' = "idle"
  /\ cur' = NoCur
  /\ UNCHANGED <<fontHandles, weakRefs, bal>>

\* mutant: clone takes borrow() and writes through it
FontClone_SharedBorrow(id) ==
  /\ pc = "idle"
  /\ id \in BagToSet(fontHandles)
  /\ NumHandles < MaxHandles
  /\ IF borrow < 0
     THEN Abort("font_clone", Container, id, BorrowMutError) /\ UNCHANGED clientVars
     ELSE LET r == inc_font(Container, id)
          IN IF r.kind = "panic"
             THEN Abort("font_clone", r.c, id, r.msg) /\ UNCHANGED clientVars
             ELSE /\ SetContainer(r.c)
                  /\ fontHandles' = BagAdd(fontHandles, id)
                  /\ ret' = Ret("font_clone", "unit", -1, id, id, "", FALSE)
                  /\ bal' = BalClone("font", id)
                  /\ UNCHANGED <<borrow, bufHandles, weakRefs, pc, cur>>

\* impl Clone for Font
FontClone(id) ==
  /\ pc = "idle"
  /\ id \in BagToSet(fontHandles)
  /\ NumHandles < MaxHandles
  /\ IF borrow # 0
     THEN Abort("font_clone", Container, id, BorrowMutError) /\ UNCHANGED clientVars
     ELSE LET r == inc_font(Container, id)
          IN IF r.kind = "panic"
             THEN Abort("font_clone", r.c, id, r.msg) /\ UNCHANGED clientVars
             ELSE /\ SetContainer(r.c)
                  /\ fontHandles' = BagAdd(fontHandles, id)
                  /\ ret' = Ret("font_clone", "unit", -1, id, id, "", FALSE)
                  /\ bal' = BalClone("font", id)
                  /\ UNCHANGED <<borrow, bufHandles, weakRefs, pc, cur>>

\* impl Drop for Font
FontDrop(id) ==
  /\ pc = "idle"
  /\ id \in BagToSet(fontHandles)
  /\ IF borrow # 0
     THEN /\ Abort("font_drop", Container, id, BorrowMutError)
          /\ fontHandles' = BagDel(fontHandles, id)
          /\ UNCHANGED <<bufHandles, weakRefs>>
     ELSE LET r == dec_font(Container, id)
          IN IF r.kind = "panic"
             THEN /\ Abort("font_drop", r.c, id, r.msg)
                  /\ fontHandles' = BagDel(fontHandles, id)
                  /\ UNCHANGED <<bufHandles, weakRefs>>
             ELSE /\ SetContainer(r.c)
                  /\ fontHandles' = BagDel(fontHandles, id)
                  /\ ret' = Ret("font_drop", "unit", -1, id, id, "", FALSE)
                  /\ bal' = BalDrop("font", id)
                  /\ UNCHANGED <<borrow, bufHandles, weakRefs, pc, cur>>


\* mutant: Buffer::new is handed a Font made from the id, without clone()
CreateBuffer_NoClone(id, text) ==
  /\ pc = "idle"
  /\ id \in BagToSet(fontHandles)
  /\ NumHandles < MaxHandles
  /\ Cardinality(SlabKeys(buffers)) < MaxBuffers
  /\ UNCHANGED tables
  /\ pc' = "Buffer_new"
  /\ cur' = [id |-> -1, font_id |-> id, text |-> text, outlines |-> <<>>]
  /\ bal' = NoBal
  /\ UNCHANGED <<borrow, ret>>
  /\ UNCHANGED clientVars

\* Font::create_buffer, first part: self.clone() (a Font handle of its own,
\* passed by value to Buffer::new)
CreateBuffer(id, text) ==
  /\ pc = "idle"
  /\ id \in BagToSet(fontHandles)
  /\ NumHandles < MaxHandles
  /\ Cardinality(SlabKeys(buffers)) < MaxBuffers
  /\ IF borrow # 0
     THEN Abort("create_buffer", Container, id, BorrowMutError)
     ELSE LET r == inc_font(Container, id)
          IN IF r.kind = "panic"
             THEN Abort("create_buffer", r.c, id, r.msg)
             ELSE /\ SetContainer(r.c)
                  /\ pc' = "Buffer_new"
                  /\ cur' = [id |-> -1, font_id |-> id, text |-> text, outlines |-> <<>>]
                  /\ bal' = NoBal
                  /\ UNCHANGED <<borrow, ret>>
  /\ UNCHANGED clientVars

\* Buffer::new: a borrow_mut scope around FontsContainer::create_buffer, then
\* the Buffer is built around the Font it was given
BufferNew ==
  /\ pc = "Buffer_new"
  /\ IF borrow # 0
     THEN Abort("create_buffer", Container, cur.font_id, BorrowMutError)
          /\ UNCHANGED clientVars
     ELSE LET r == create_buffer(Container, cur.font_id, cur.text)
          IN IF r.kind = "panic"
             THEN Abort("create_buffer", r.c, cur.font_id, r.msg)
                  /\ UNCHANGED clientVars
             ELSE /\ SetContainer(r.c)
                  /\ bufHandles' = BagAdd(bufHandles, BufferHandle(r.id, cur.font_id))
                  /\ ret' = Ret("create_buffer", "unit", r.id, cur.font_id,
                                cur.font_id, "", FALSE)
                  /\ pc' = "idle"
                  /\ cur' = NoCur
                  /\ UNCHANGED <<borrow, fontHandles, weakRefs, bal>>

\* impl Clone for Buffer, first statement: borrow_mut, inc_buffer(self._id)
BufferClone(b) ==
  /\ pc = "idle"
  /\ b \in BagToSet(bufHandles)
  /\ NumHandles < MaxHandles
  /\ IF borrow # 0
     THEN Abort("buffer_clone", Container, b.id, BorrowMutError)
     ELSE LET r == inc_buffer(Container, b.id)
          IN IF r.kind = "panic"
             THEN Abort("buffer_clone", r.c, b.id, r.msg)
             ELSE /\ SetContainer(r.c)
                  /\ borrow' = -1
                  /\ pc' = "Buffer_clone_inc_font"
                  /\ cur' = [id |-> b.id, font_id |-> b.font_id, text |-> <<>>, outlines |-> <<>>]
                  /\ bal' = BalClone("buffer", b.id)
                  /\ UNCHANGED ret
  /\ UNCHANGED clientVars

\* mutant: the duplicate's Font is built without inc_font
BufferCloneFont_NoIncFont ==
  /\ pc = "Buffer_clone_inc_font"
  /\ UNCHANGED tables
  /\ bufHandles' = BagAdd(bufHandles, BufferHandle(cur.id, cur.font_id))
  /\ ret' = Ret("buffer_clone", "unit", cur.id, cur.font_id, cur.id, "", FALSE)
  /\ borrow' = 0
  /\ pc' = "idle"
  /\ cur' = NoCur
  /\ UNCHANGED <<fontHandles, weakRefs, bal>>

\* impl Clone for Buffer, second statement: inc_font(self._font.id), then
\* the new Buffer is built and the RefMut guard dropped
BufferCloneFont ==
  /\ pc = "Buffer_clone_inc_font"
  /\ LET r == inc_font(Container, cur.font_id)
     IN IF r.kind = "panic"
        THEN Abort("buffer_clone", r.c, cur.id, r.msg) /\ UNCHANGED clientVars
        ELSE /\ SetContainer(r.c)
             /\ bufHandles' = BagAdd(bufHandles, BufferHandle(cur.id, cur.font_id))
             /\ ret' = Ret("buffer_clone", "unit", cur.id, cur.font_id, cur.id, "", FALSE)
             /\ borrow' = 0
             /\ pc' = "idle"
             /\ cur' = NoCur
             /\ UNCHANGED <<fontHandles, weakRefs, bal>>

\* mutant: the _font field is dropped while the RefMut of drop() is alive
BufferDrop_GuardHeld(b) ==
  /\ pc = "idle"
  /\ b \in BagToSet(bufHandles)
  /\ bufHandles' = BagDel(bufHandles, b)
  /\ IF borrow # 0
     THEN Abort("buffer_drop", Container, b.id, BorrowMutError)
     ELSE LET r == dec_buffer(Container, b.id)
          IN IF r.kind = "panic"
             THEN Abort("buffer_drop", r.c, b.id, r.msg)
             ELSE /\ SetContainer(r.c)
                  /\ borrow' = -1
                  /\ pc' = "Buffer_drop_font"
                  /\ cur' = [id |-> b.id, font_id |-> b.font_id, text |-> <<>>, outlines |-> <<>>]
                  /\ bal' = BalDrop("buffer", b.id)
                  /\ UNCHANGED ret
  /\ UNCHANGED <<fontHandles, weakRefs>>

\* impl Drop for Buffer: borrow_mut, dec_buffer(self._id); the guard is
\* dropped at the end of drop(), before the fields are dropped
BufferDrop(b) ==
  /\ pc = "idle"
  /\ b \in BagToSet(bufHandles)
  /\ bufHandles' = BagDel(bufHandles, b)
  /\ IF borrow # 0
     THEN Abort("buffer_drop", Container, b.id, BorrowMutError)
     ELSE LET r == dec_buffer(Container, b.id)
          IN IF r.kind = "panic"
             THEN Abort("buffer_drop", r.c, b.id, r.msg)
             ELSE /\ SetContainer(r.c)
                  /\ pc' = "Buffer_drop_font"
                  /\ cur' = [id |-> b.id, font_id |-> b.font_id, text |-> <<>>, outlines |-> <<>>]
                  /\ bal' = BalDrop("buffer", b.id)
                  /\ UNCHANGED <<borrow, ret>>
  /\ UNCHANGED <<fontHandles, weakRefs>>

\* drop glue of Buffer: the field _font is dropped after Buffer::drop
\* returned, through impl Drop for Font
BufferDropFont ==
  /\ pc = "Buffer_drop_font"
  /\ IF borrow # 0
     THEN Abort("buffer_drop", Container, cur.id, BorrowMutError)
     ELSE LET r == dec_font(Container, cur.font_id)
          IN IF r.kind = "panic"
             THEN Abort("buffer_drop", r.c, cur.id, r.msg)
             ELSE /\ SetContainer(r.c)
                  /\ ret' = Ret("buffer_drop", "unit", cur.id, cur.font_id,
                                cur.id, "", FALSE)
                  /\ pc' = "idle"
                  /\ cur' = NoCur
                  /\ UNCHANGED <<borrow, bal>>
  /\ UNCHANGED clientVars

\* mutant: the weak reference retains the buffer
WeakRef_Owning(b) ==
  /\ pc = "idle"
  /\ b \in BagToSet(bufHandles)
  /\ Cardinality(weakRefs) < MaxWeak
  /\ SetContainer(inc_buffer(Container, b.id).c)
  /\ weakRefs' = weakRefs \cup {[font_id |-> b.font_id, id |-> b.id]}
  /\ ret' = Ret("weak_ref", "unit", b.id, b.font_id, b.id, "", FALSE)
  /\ bal' = NoBal
  /\ UNCHANGED <<borrow, fontHandles, bufHandles, pc, cur>>

\* Buffer::weak_ref: plain data copied out of the handle, no borrow
WeakRef(b) ==
  /\ pc = "idle"
  /\ b \in BagToSet(bufHandles)
  /\ Cardinality(weakRefs) < MaxWeak
  /\ weakRefs' = weakRefs \cup {[font_id |-> b.font_id, id |-> b.id]}
  /\ ret' = Ret("weak_ref", "unit", b.id, b.font_id, b.id, "", FALSE)
  /\ bal' = NoBal
  /\ UNCHANGED <<tables, borrow, fontHandles, bufHandles, pc, cur>>

BorrowError == "already mutably borrowed: BorrowError"

\* an accessor that returns: the value goes to the caller, nothing else moves
Returns(op, id, font_id, arg, out) ==
  /\ ret' = [Ret(op, "unit", id, font_id, arg, "", FALSE) EXCEPT !.out = out]
  /\ bal' = NoBal
  /\ UNCHANGED <<tables, borrow, clientVars, pc, cur>>

\* Font::full_name
FullName(id) ==
  /\ pc = "idle"
  /\ id \in BagToSet(fontHandles)
  /\ IF borrow < 0
     THEN Abort("full_name", Container, id, BorrowError) /\ UNCHANGED clientVars
     ELSE IF ~get(Container, id)
     THEN Abort("full_name", Container, id, "full_name: loaded font should exist")
          /\ UNCHANGED clientVars
     ELSE Returns("full_name", -1, id, id, fk_full_name(fonts_id_prop[id].fk_font))

\* Font::glyph_count
GlyphCount(id) ==
  /\ pc = "idle"
  /\ id \in BagToSet(fontHandles)
  /\ IF borrow < 0
     THEN Abort("glyph_count", Container, id, BorrowError) /\ UNCHANGED clientVars
     ELSE IF ~get(Container, id)
     THEN Abort("glyph_count", Container, id, "glyph_count: loaded font should exist")
          /\ UNCHANGED clientVars
     ELSE Returns("glyph_count", -1, id, id, fk_glyph_count(fonts_id_prop[id].fk_font))

\* Font::outline, with a path builder that only records the segments
Outline(id, glyph_loaded) ==
  /\ pc = "idle"
  /\ id \in BagToSet(fontHandles)
  /\ IF borrow < 0
     THEN Abort("outline", Container, id, BorrowError) /\ UNCHANGED clientVars
     ELSE IF ~get(Container, id)
     THEN Abort("outline", Container, id, "outline: loaded font should exist")
          /\ UNCHANGED clientVars
     ELSE Returns("outline", -1, id, id,
                  fk_outline(fonts_id_prop[id].fk_font, glyph_loaded))

\* output vectors the client passes to glyphs: a new Vec, or the Vec the
\* glyphs call before this one filled
Outputs ==
  {<<>>} \cup (IF ret.op = "glyphs" /\ Len(ret.out) < MaxOutput
               THEN {ret.out} ELSE {})

\* Buffer::glyphs
Glyphs(b, output) ==
  /\ pc = "idle"
  /\ b \in BagToSet(bufHandles)
  /\ IF borrow < 0
     THEN Abort("glyphs", Container, output, BorrowError) /\ UNCHANGED clientVars
     ELSE LET r == buffer_glyphs(Container, b.id, output)
          IN IF r.kind = "panic"
             THEN Abort("glyphs", Container, output, r.msg) /\ UNCHANGED clientVars
             ELSE Returns("glyphs", b.id, b.font_id, output, r.out)

\* Buffer::get_buffer_transform
GetBufferTransform(b, parent_absolute_transform) ==
  /\ pc = "idle"
  /\ b \in BagToSet(bufHandles)
  /\ IF borrow < 0
     THEN Abort("get_buffer_transform", Container, parent_absolute_transform, BorrowError)
          /\ UNCHANGED clientVars
     ELSE LET r == get_buffer_transform(Container, b.id, parent_absolute_transform)
          IN IF r.kind = "panic"
             THEN Abort("get_buffer_transform", Container, parent_absolute_transform, r.msg)
                  /\ UNCHANGED clientVars
             ELSE Returns("get_buffer_transform", b.id, b.font_id,
                          parent_absolute_transform, r.out)

BufferHandles == [id : 0..MaxBuffers, font_id : 0..(MaxFontIndex + 1)]

Next ==
  \/ \E selected \in SelectOutcomes, load_ok, face_ok, funcs_ok \in BOOLEAN :
       FindBestMatch(selected, load_ok, face_ok, funcs_ok)
  \/ \E id \in FontLookupIds : FontFromId(id)
  \/ \E id \in BufferLookupIds : BufferFromId(id)
  \/ BufferFromIdFont
  \/ \E id \in FontLookupIds : FontClone(id)
  \/ \E id \in FontLookupIds : FontDrop(id)
  \/ \E id \in FontLookupIds, text \in Texts : CreateBuffer(id, text)
  \/ BufferNew
  \/ \E b \in BufferHandles : BufferClone(b)
  \/ BufferCloneFont
  \/ \E b \in BufferHandles : BufferDrop(b)
  \/ BufferDropFont
  \/ \E b \in BufferHandles : WeakRef(b)
  \/ \E id \in FontLookupIds : FullName(id)
  \/ \E id \in FontLookupIds : GlyphCount(id)
  \/ \E id \in FontLookupIds, glyph_loaded \in BOOLEAN : Outline(id, glyph_loaded)
  \/ \E b \in BufferHandles, output \in Outputs : Glyphs(b, output)
  \/ \E b \in BufferHandles, P \in ParentTransforms : GetBufferTransform(b, P)

Spec == Init /\ [][Next]_vars

\* Font::outline with a path builder that uses the client's handles: the
\* Ref taken by outline is held while fk_font.outline calls the builder, so
\* the operations the builder calls run with the shared borrow outstanding.
\* OutlineBegin is the call up to the first builder callback, OutlineEnd
\* the return of the innermost outline in progress.
OutlineBegin(id) ==
  /\ pc = "idle"
  /\ id \in BagToSet(fontHandles)
  /\ Len(cur.outlines) < MaxNest
  /\ IF borrow < 0
     THEN Abort("outline", Container, id, BorrowError) /\ UNCHANGED clientVars
     ELSE IF ~get(Container, id)
     THEN Abort("outline", Container, id, "outline: loaded font should exist")
          /\ UNCHANGED clientVars
     ELSE /\ borrow' = borrow + 1
          /\ cur' = [cur EXCEPT !.outlines = Append(@, id)]
          /\ ret' = Ret("outline", "path_builder", -1, id, id, "", FALSE)
          /\ bal' = NoBal
          /\ UNCHANGED <<tables, clientVars, pc>>

OutlineEnd(glyph_loaded) ==
  /\ pc = "idle"
  /\ cur.outlines # <<>>
  /\ LET id == cur.outlines[Len(cur.outlines)]
     IN ret' = [Ret("outline", "unit", -1, id, id, "", FALSE)
                  EXCEPT !.out = fk_outline(fonts_id_prop[id].fk_font, glyph_loaded)]
  /\ borrow' = borrow - 1
  /\ cur' = [cur EXCEPT !.outlines = SubSeq(@, 1, Len(@) - 1)]
  /\ bal' = NoBal
  /\ UNCHANGED <<tables, clientVars, pc>>

NextNested ==
  \/ Next
  \/ \E id \in FontLookupIds : OutlineBegin(id)
  \/ \E glyph_loaded \in BOOLEAN : OutlineEnd(glyph_loaded)

SpecNested == Init /\ [][NextNested]_vars

\* BufferData::replace has no caller among the operations above.  ReplaceText
\* is the call a method of the container would make on one of its entries,
\* with the entry's font data; SpecReplace is the module with that entry
\* point in use.
ReplaceText(id, text) ==
  /\ pc = "idle"
  /\ borrow = 0
  /\ SlabContains(buffers, id)
  /\ LET data == SlabGet(buffers, id)
         r == replace(data, fonts_id_prop[data.font_id], text)
     IN IF r.panic
        THEN /\ Abort("replace", Container, text,
                      "called Option::unwrap() on a None value")
             /\ UNCHANGED clientVars
        ELSE /\ buffers' = SlabSet(buffers, id, r.data)
             /\ ret' = [Ret("replace", "unit", id, data.font_id, text, "", FALSE)
                          EXCEPT !.out = data.text]
             /\ bal' = NoBal
             /\ UNCHANGED <<fonts, fonts_fingerprint_id, fonts_id_prop, borrow,
                            clientVars, pc, cur>>

NextReplace ==
  \/ Next
  \/ \E id \in BufferLookupIds, text \in Texts : ReplaceText(id, text)

SpecReplace == Init /\ [][NextReplace]_vars


\* The transform field of an entry is written by BufferData::new only; the
\* product in get_buffer_transform is defined for any value of the field.
\* SpecTransform applies get_buffer_transform to a pool whose one entry
\* holds any transform of Transforms, with any parent of Transforms.
Transforms == {<<<<a, b>>, <<0, 1>>>> : a \in 1..MaxScale, b \in 0..MaxShift}

InitTransform ==
  \E T \in Transforms :
    LET handle == [kind |-> "Path", bytes |-> <<97>>, font_index |-> 0]
        loaded == load_font(FontsContainer_new, handle,
                            generate_fingerprint(handle), TRUE, TRUE, TRUE)
        cloned == inc_font(loaded.c, loaded.font_id)
        created == create_buffer(cloned.c, loaded.font_id, <<65>>)
        data == SlabGet(created.c.buffers, created.id)
        c == [created.c EXCEPT !.buffers =
                SlabSet(@, created.id, [data EXCEPT !.transform = T])]
    IN /\ fonts = c.fonts
       /\ fonts_fingerprint_id = c.fonts_fingerprint_id
       /\ fonts_id_prop = c.fonts_id_prop
       /\ buffers = c.buffers
       /\ borrow = 0
       /\ fontHandles = SetToBag({loaded.font_id})
       /\ bufHandles = SetToBag({BufferHandle(created.id, loaded.font_id)})
       /\ weakRefs = {}
       /\ pc = "idle"
       /\ cur = NoCur
       /\ ret = Ret("create_buffer", "unit", created.id, loaded.font_id,
                    loaded.font_id, "", FALSE)
       /\ bal = NoBal

NextTransform ==
  \E b \in BufferHandles, P \in Transforms : GetBufferTransform(b, P)

SpecTransform == InitTransform /\ [][NextTransform]_vars

\* ----------------------------------------------------------------- claims
FontLive(id) == id \in DOMAIN fonts_id_prop
BufferLive(id) == SlabContains(buffers, id)
FontCount(id) == IF FontLive(id) THEN fonts_id_prop[id].count ELSE 0
BufferCount(id) == IF BufferLive(id) THEN SlabGet(buffers, id).count ELSE 0

\* Buffer handles the client holds that satisfy P, with multiplicity
BufHandlesWithFont(font_id) ==
  BagCardinality([b \in {x \in BagToSet(bufHandles) : x.font_id = font_id}
                    |-> bufHandles[b]])
BufHandlesWithId(id) ==
  BagCardinality([b \in {x \in BagToSet(bufHandles) : x.id = id}
                    |-> bufHandles[b]])

\* the Font value an operation in progress owns: the clone handed to
\* Buffer::new, or the _font field of a Buffer whose drop() has returned
InFlightFont(font_id) ==
  IF pc \in {"Buffer_new", "Buffer_drop_font"} /\ cur.font_id = font_id
  THEN 1 ELSE 0

FontOwners(font_id) ==
  CopiesIn(font_id, fontHandles) + BufHandlesWithFont(font_id)
    + InFlightFont(font_id)

AllFontIds == FontLookupIds \cup DOMAIN fonts_id_prop
AllBufferIds == BufferLookupIds \cup SlabKeys(buffers)

\* C1: between operations (and between the two borrow scopes of
\* create_buffer and of Buffer drop) every font entry's refcount equals the
\* number of font-owning references to its id (standalone Font handles plus
\* the Font inside each Buffer handle), and every buffer entry's refcount
\* equals the number of Buffer handles with its id; an id with no entry has
\* no handle.
C1_RefcountsEqualHandles ==
  pc \in {"idle", "Buffer_new", "Buffer_drop_font"} =>
    /\ \A id \in AllFontIds : FontCount(id) = FontOwners(id)
    /\ \A id \in AllBufferIds : BufferCount(id) = BufHandlesWithId(id)
    /\ \A b \in BagToSet(bufHandles) : b.id \in AllBufferIds /\ b.font_id \in AllFontIds
    /\ \A id \in BagToSet(fontHandles) : id \in AllFontIds

C1_Witness ==
  /\ pc = "idle"
  /\ \E id \in DOMAIN fonts_id_prop :
       /\ CopiesIn(id, fontHandles) = 1
       /\ BufHandlesWithFont(id) = 2
       /\ fonts_id_prop[id].count = 3
  /\ \E id \in SlabKeys(buffers) : SlabGet(buffers, id).count = 2

\* C2: in every state, the intermediate ones included, each buffer entry
\* of the pool is bound to a live font entry; so a font whose standalone
\* Font handles are all gone stays while a Buffer handle bound to it exists.
C2_BufferFontLive ==
  /\ \A id \in SlabKeys(buffers) : FontLive(SlabGet(buffers, id).font_id)
  /\ \A b \in BagToSet(bufHandles) :
       /\ FontLive(b.font_id)
       /\ BufferLive(b.id)
       /\ SlabGet(buffers, b.id).font_id = b.font_id

C2_Witness ==
  /\ pc = "idle"
  /\ ret.op = "font_drop"
  /\ CopiesIn(ret.font_id, fontHandles) = 0
  /\ BufHandlesWithFont(ret.font_id) = 2
  /\ FontLive(ret.font_id)


\* the step completes operation `op` (returning or unwinding)
Completes(op) ==
  pc = "idle" /\ pc' \in {"idle", "aborted"} /\ ret'.op = op

Unimplemented == "not implemented: can not load fonts from memory"

\* C3: a run of N duplications of a handle followed by N releases leaves
\* the whole container as it was before the run; a release at refcount 1
\* removes the entry, and a lookup of an id without entry returns no handle
\* and changes nothing.
C3_LastRelease ==
  /\ (pc = "idle" /\ pc' = "idle" /\ ret'.op = "font_drop"
        /\ FontCount(ret'.font_id) = 1)
       => ret'.font_id \notin DOMAIN fonts_id_prop'
  /\ (pc = "Buffer_drop_font" /\ pc' = "idle" /\ FontCount(cur.font_id) = 1)
       => cur.font_id \notin DOMAIN fonts_id_prop'
  /\ (pc = "idle" /\ pc' = "Buffer_drop_font" /\ BufferCount(cur'.id) = 1)
       => ~SlabContains(buffers', cur'.id)
  /\ (Completes("font_from_id") /\ ~FontLive(ret'.arg))
       => ret'.kind = "None" /\ UNCHANGED <<tables, clientVars>>
  /\ (Completes("buffer_from_id") /\ ~BufferLive(ret'.arg))
       => ret'.kind = "None" /\ UNCHANGED <<tables, clientVars>>
  /\ (pc = "idle" /\ pc' = "buffer_from_id_font") => BufferLive(cur'.id)

C3_Conservation ==
  /\ [](pc = "idle" /\ bal.active /\ bal.ups = bal.downs => Container = bal.snap)
  /\ [][C3_LastRelease]_vars

C3_Witness ==
  /\ pc = "idle"
  /\ bal.active
  /\ bal.kind = "buffer"
  /\ bal.ups = 2
  /\ bal.downs = 2
  /\ ret.op = "buffer_drop"

\* C4: find_best_match on a descriptor whose fingerprint is registered
\* returns the registered id without calling the loader and adds exactly one
\* to that entry's refcount, all tables otherwise unchanged; a first
\* resolution inserts the entry with refcount 1; no fingerprint is ever held
\* by two ids.
C4_ResolveTwice ==
  [][(Completes("find_best_match") /\ ret'.arg.kind # "Err") =>
       LET fingerprint == generate_fingerprint(ret'.arg) IN
       /\ fingerprint \in DOMAIN fonts_fingerprint_id =>
            LET id == fonts_fingerprint_id[fingerprint] IN
            /\ ret'.kind = "Some"
            /\ ret'.font_id = id
            /\ ~ret'.load
            /\ fonts' = fonts
            /\ fonts_fingerprint_id' = fonts_fingerprint_id
            /\ buffers' = buffers
            /\ fonts_id_prop' = [fonts_id_prop EXCEPT ![id].count = @ + 1]
            /\ fontHandles' = BagAdd(fontHandles, id)
       /\ (fingerprint \notin DOMAIN fonts_fingerprint_id /\ ret'.kind = "Some") =>
            /\ ret'.load
            /\ ret'.font_id \notin DOMAIN fonts_id_prop
            /\ fonts_id_prop'[ret'.font_id].count = 1
            /\ fonts_fingerprint_id'[fingerprint] = ret'.font_id
       /\ Cardinality({id \in SlabKeys(fonts') : SlabGet(fonts', id) = fingerprint}) <= 1
    ]_vars

C4_Witness ==
  /\ pc = "idle"
  /\ ret.op = "find_best_match"
  /\ ret.kind = "Some"
  /\ ~ret.load
  /\ DOMAIN fonts_id_prop = {ret.font_id}
  /\ fonts_id_prop[ret.font_id].count = 2
  /\ CopiesIn(ret.font_id, fontHandles) = 2
  /\ SlabKeys(fonts) = {ret.font_id}

\* C5: the slab, the fingerprint map and the FontData map hold the same
\* ids, the fingerprint map is the inverse of the slab, and each FontData
\* is the font its fingerprint was computed from.
C5_TablesAgree ==
  /\ SlabKeys(fonts) = DOMAIN fonts_id_prop
  /\ {fonts_fingerprint_id[fp] : fp \in DOMAIN fonts_fingerprint_id} = SlabKeys(fonts)
  /\ \A id \in SlabKeys(fonts) :
       /\ SlabGet(fonts, id) \in DOMAIN fonts_fingerprint_id
       /\ fonts_fingerprint_id[SlabGet(fonts, id)] = id
  /\ \A fp \in DOMAIN fonts_fingerprint_id :
       /\ SlabContains(fonts, fonts_fingerprint_id[fp])
       /\ SlabGet(fonts, fonts_fingerprint_id[fp]) = fp
  /\ \A id \in DOMAIN fonts_id_prop \cap SlabKeys(fonts) :
       generate_fingerprint(fonts_id_prop[id].fk_font) = SlabGet(fonts, id)

\* a font loaded into slot 0 of a slab that already grew to two slots: the
\* slot was evicted before and is in use again
C5_Witness ==
  /\ pc = "idle"
  /\ ret.op = "find_best_match"
  /\ ret.kind = "Some"
  /\ ret.load
  /\ ret.font_id = 0
  /\ Len(fonts.entries) >= 2
  /\ \E id \in SlabKeys(fonts) : id # 0

\* C6: weak_ref changes no table and no handle; while no Buffer handle with
\* the weak reference's buffer id is left, the lookup of that id finds
\* nothing, and buffer_from_id on it returns no handle and changes nothing.
C6_Step ==
  /\ Completes("weak_ref") => UNCHANGED <<tables, fontHandles, bufHandles>>
  /\ (Completes("buffer_from_id") /\ BufHandlesWithId(ret'.arg) = 0)
       => ret'.kind = "None" /\ UNCHANGED <<tables, clientVars>>
  /\ (pc = "idle" /\ pc' = "buffer_from_id_font") => BufHandlesWithId(cur'.id) > 0

C6_WeakRefNonOwning ==
  /\ [](pc = "idle" =>
          \A w \in weakRefs :
            BufHandlesWithId(w.id) = 0 =>
              get_and_inc_buffer(Container, w.id).kind = "None")
  /\ [][C6_Step]_vars

C6_Witness ==
  /\ pc = "idle"
  /\ ret.op = "buffer_from_id"
  /\ ret.kind = "None"
  /\ \E w \in weakRefs : ret.arg = w.id /\ BufHandlesWithId(w.id) = 0
  /\ Len(buffers.entries) >= 1

\* C7: a find_best_match that returns None leaves the tables, the borrow
\* flag and the client's handles as they were.
C7_NoneChangesNothing ==
  [][(Completes("find_best_match") /\ ret'.kind = "None")
       => UNCHANGED <<tables, clientVars, borrow>>]_vars

C7_Witness ==
  /\ pc = "idle"
  /\ ret.op = "find_best_match"
  /\ ret.kind = "None"
  /\ ret.arg.kind = "Path"
  /\ ret.load
  /\ DOMAIN fonts_id_prop # {}

\* C8 as stated: find_best_match on a Memory descriptor always aborts.
C8_MemoryAlwaysAborts ==
  [][(Completes("find_best_match") /\ ret'.arg.kind = "Memory")
       => ret'.kind = "abort"]_vars

\* C8 as amended: on a Memory descriptor whose fingerprint is not
\* registered, find_best_match aborts when the loader loaded the font and
\* returns None when the loader failed; it changes nothing and returns no
\* handle either way.
C8_MemoryUnregistered ==
  [][(/\ Completes("find_best_match")
      /\ ret'.arg.kind = "Memory"
      /\ generate_fingerprint(ret'.arg) \notin DOMAIN fonts_fingerprint_id)
     => /\ UNCHANGED <<tables, clientVars>>
        /\ ret'.kind \in {"abort", "None"}
        /\ \A load_ok, face_ok, funcs_ok \in BOOLEAN :
             FindBestMatch(ret'.arg, load_ok, face_ok, funcs_ok) =>
               IF load_ok
               THEN ret'.kind = "abort" /\ ret'.msg = Unimplemented /\ pc' = "aborted"
               ELSE ret'.kind = "None" /\ pc' = "idle"]_vars

C8_Witness ==
  /\ pc = "aborted"
  /\ ret.op = "find_best_match"
  /\ ret.kind = "abort"
  /\ ret.msg = Unimplemented
  /\ ret.arg.kind = "Memory"
  /\ DOMAIN fonts_id_prop # {}


\* C9: stored entries have refcount >= 1; a release finds its entry, only
\* decrements when the refcount is above 1 and erases the entry (from every
\* table) when it is 1; no release panics; with no handle left the registry
\* and the pool are empty.
C9_FontRelease(id) ==
  /\ FontLive(id)
  /\ fonts_id_prop[id].count >= 1
  /\ pc' # "aborted"
  /\ buffers' = buffers
  /\ IF fonts_id_prop[id].count > 1
     THEN /\ fonts_id_prop' = [fonts_id_prop EXCEPT ![id].count = @ - 1]
          /\ fonts' = fonts
          /\ fonts_fingerprint_id' = fonts_fingerprint_id
     ELSE /\ id \notin DOMAIN fonts_id_prop'
          /\ ~SlabContains(fonts', id)
          /\ \A fp \in DOMAIN fonts_fingerprint_id' : fonts_fingerprint_id'[fp] # id

C9_BufferRelease(id) ==
  /\ BufferLive(id)
  /\ SlabGet(buffers, id).count >= 1
  /\ pc' # "aborted"
  /\ UNCHANGED <<fonts, fonts_fingerprint_id, fonts_id_prop>>
  /\ IF SlabGet(buffers, id).count > 1
     THEN buffers' = SlabSet(buffers, id,
                             [SlabGet(buffers, id) EXCEPT !.count = @ - 1])
     ELSE ~SlabContains(buffers', id)

C9_Step ==
  /\ Completes("font_drop") => C9_FontRelease(ret'.arg)
  /\ pc = "Buffer_drop_font" => C9_FontRelease(cur.font_id)
  /\ (pc = "idle" /\ pc' = "Buffer_drop_font") => C9_BufferRelease(cur'.id)
  /\ (pc = "idle" /\ pc' = "aborted") => ret'.op = "find_best_match"

C9_Inv ==
  /\ \A id \in DOMAIN fonts_id_prop : fonts_id_prop[id].count >= 1
  /\ \A id \in SlabKeys(buffers) : SlabGet(buffers, id).count >= 1
  /\ pc = "aborted" => ret.op = "find_best_match" /\ ret.msg = Unimplemented
  /\ (pc = "idle" /\ NumHandles = 0) =>
       /\ DOMAIN fonts_id_prop = {}
       /\ DOMAIN fonts_fingerprint_id = {}
       /\ SlabKeys(fonts) = {}
       /\ SlabKeys(buffers) = {}

C9_StateMachine == []C9_Inv /\ [][C9_Step]_vars

C9_Witness ==
  /\ pc = "idle"
  /\ ret.op = "buffer_drop"
  /\ NumHandles = 0
  /\ Len(buffers.entries) = 2
  /\ Len(fonts.entries) = 2
  /\ SlabKeys(buffers) = {}
  /\ DOMAIN fonts_id_prop = {}

\* C10: Buffer clone adds one to the buffer entry's refcount and then one
\* to the refcount of the font the entry is bound to; Buffer drop takes one
\* from the buffer entry's refcount (erasing it at 0) and then one from the
\* font's; every other entry is unchanged in each step.
C10_BufferCounter(id, d) ==
  /\ BufferLive(id)
  /\ IF SlabGet(buffers, id).count + d = 0
     THEN ~SlabContains(buffers', id)
     ELSE /\ SlabContains(buffers', id)
          /\ SlabGet(buffers', id) =
               [SlabGet(buffers, id) EXCEPT !.count = @ + d]
  /\ \A k \in (SlabKeys(buffers) \cup SlabKeys(buffers')) \ {id} :
       /\ SlabContains(buffers, k)
       /\ SlabContains(buffers', k)
       /\ SlabGet(buffers', k) = SlabGet(buffers, k)
  /\ UNCHANGED <<fonts, fonts_fingerprint_id, fonts_id_prop>>

C10_FontCounter(id, d) ==
  /\ FontLive(id)
  /\ IF fonts_id_prop[id].count + d = 0
     THEN id \notin DOMAIN fonts_id_prop'
     ELSE /\ id \in DOMAIN fonts_id_prop'
          /\ fonts_id_prop'[id] = [fonts_id_prop[id] EXCEPT !.count = @ + d]
  /\ \A k \in (DOMAIN fonts_id_prop \cup DOMAIN fonts_id_prop') \ {id} :
       /\ k \in DOMAIN fonts_id_prop
       /\ k \in DOMAIN fonts_id_prop'
       /\ fonts_id_prop'[k] = fonts_id_prop[k]
  /\ buffers' = buffers

C10_Step ==
  /\ (pc = "idle" /\ pc' = "Buffer_clone_inc_font") =>
       /\ C10_BufferCounter(cur'.id, 1)
       /\ cur'.font_id = SlabGet(buffers, cur'.id).font_id
  /\ pc = "Buffer_clone_inc_font" =>
       /\ pc' = "idle"
       /\ ret'.op = "buffer_clone"
       /\ C10_FontCounter(cur.font_id, 1)
  /\ (pc = "idle" /\ pc' = "Buffer_drop_font") =>
       /\ C10_BufferCounter(cur'.id, -1)
       /\ cur'.font_id = SlabGet(buffers, cur'.id).font_id
  /\ pc = "Buffer_drop_font" =>
       /\ pc' = "idle"
       /\ ret'.op = "buffer_drop"
       /\ C10_FontCounter(cur.font_id, -1)
  /\ (pc = "idle" /\ pc' = "aborted") => ret'.op \notin {"buffer_clone", "buffer_drop"}

C10_BufferCloneDrop == [][C10_Step]_vars

C10_Witness ==
  /\ pc = "idle"
  /\ ret.op = "buffer_clone"
  /\ BufferCount(ret.id) = 2
  /\ FontCount(ret.font_id) = 3
  /\ CopiesIn(ret.font_id, fontHandles) = 1

\* C11: duplicating or destroying a Font handle (standalone, the clone made
\* by create_buffer, or the Font inside a Buffer being dropped) changes the
\* refcount of that one font entry by one, erasing the entry at zero; the
\* buffer pool, and every other font entry in each of the three font
\* tables, stay as they were.
C11_OtherFontsKept(id) ==
  /\ \A k \in (SlabKeys(fonts) \cup SlabKeys(fonts')) \ {id} :
       /\ SlabContains(fonts, k)
       /\ SlabContains(fonts', k)
       /\ SlabGet(fonts', k) = SlabGet(fonts, k)
  /\ \A fp \in DOMAIN fonts_fingerprint_id \cup DOMAIN fonts_fingerprint_id' :
       \/ /\ fp \in DOMAIN fonts_fingerprint_id
          /\ fp \in DOMAIN fonts_fingerprint_id'
          /\ fonts_fingerprint_id'[fp] = fonts_fingerprint_id[fp]
       \/ /\ fp \in DOMAIN fonts_fingerprint_id
          /\ fp \notin DOMAIN fonts_fingerprint_id'
          /\ fonts_fingerprint_id[fp] = id

C11_FontOnly(id, d) ==
  /\ C10_FontCounter(id, d)
  /\ C11_OtherFontsKept(id)
  /\ fonts_id_prop[id].count + d > 0 =>
       fonts' = fonts /\ fonts_fingerprint_id' = fonts_fingerprint_id
  /\ buffers' = buffers

C11_Step ==
  /\ Completes("font_clone") =>
       /\ C11_FontOnly(ret'.arg, 1)
       /\ fontHandles' = BagAdd(fontHandles, ret'.arg)
       /\ UNCHANGED <<bufHandles, weakRefs>>
  /\ Completes("font_drop") =>
       /\ C11_FontOnly(ret'.arg, -1)
       /\ fontHandles' = BagDel(fontHandles, ret'.arg)
       /\ UNCHANGED <<bufHandles, weakRefs>>
  /\ (pc = "idle" /\ pc' = "Buffer_new") => C11_FontOnly(cur'.font_id, 1)
  /\ pc = "Buffer_drop_font" => C11_FontOnly(cur.font_id, -1)

C11_FontHandleFrame == [][C11_Step]_vars

C11_Witness ==
  /\ pc = "idle"
  /\ ret.op = "font_drop"
  /\ ~FontLive(ret.font_id)
  /\ DOMAIN fonts_id_prop # {}
  /\ DOMAIN fonts_fingerprint_id # {}
  /\ SlabKeys(buffers) # {}

\* C12: create_buffer on a Font handle first adds exactly one to that font's
\* refcount, then inserts a buffer entry under an id no live buffer has:
\* refcount 1, identity transform, the given text, its shaped run (one glyph
\* per code point, in order) and the handle's font id; the entries already
\* in the pool, identical text or not, and the font tables are unchanged by
\* the insert, and the caller gets one Buffer handle for the new id.
C12_Step ==
  /\ (pc = "idle" /\ pc' = "Buffer_new") =>
       /\ cur'.font_id \in BagToSet(fontHandles)
       /\ C11_FontOnly(cur'.font_id, 1)
       /\ UNCHANGED clientVars
  /\ pc = "Buffer_new" =>
       LET id == ret'.id
           entry == SlabGet(buffers', id)
       IN /\ pc' = "idle"
          /\ ret'.op = "create_buffer"
          /\ id \notin SlabKeys(buffers)
          /\ SlabKeys(buffers') = SlabKeys(buffers) \cup {id}
          /\ entry.count = 1
          /\ entry.transform = Identity
          /\ entry.text = cur.text
          /\ entry.font_id = cur.font_id
          /\ IsSome(entry.buffer)
          /\ unwrap(entry.buffer) =
               hb_shape(fonts_id_prop[cur.font_id].hb_font, cur.text)
          /\ Len(unwrap(entry.buffer).infos) = Len(cur.text)
          /\ \A k \in SlabKeys(buffers) : SlabGet(buffers', k) = SlabGet(buffers, k)
          /\ UNCHANGED <<fonts, fonts_fingerprint_id, fonts_id_prop>>
          /\ bufHandles' = BagAdd(bufHandles, BufferHandle(id, cur.font_id))
          /\ UNCHANGED <<fontHandles, weakRefs>>

C12_CreateBuffer == [][C12_Step]_vars

C12_Witness ==
  /\ pc = "idle"
  /\ ret.op = "create_buffer"
  /\ \E k \in SlabKeys(buffers) \ {ret.id} :
       /\ SlabGet(buffers, k).text = SlabGet(buffers, ret.id).text
       /\ SlabGet(buffers, k).font_id = ret.font_id
       /\ SlabGet(buffers, k).count = 1
  /\ FontCount(ret.font_id) = 3

\* C13: replace(new_text) on a buffer entry stores new_text and the shaping
\* of new_text alone against the entry's font (one glyph per code point of
\* new_text, nothing of the previous run), so a glyphs query after it
\* delivers the run of new_text; id, refcount, font id and transform of the
\* entry, every other entry and the font tables are unchanged; every entry
\* holds Some shaped run before and after, and the call does not panic.
C13_RunOf(run, hb_font, text) ==
  /\ Len(run) = Len(text)
  /\ \A i \in 1..Len(run) :
       /\ run[i].id = text[i] + hb_font.font_index
       /\ run[i].cluster = i - 1

C13_Step ==
  /\ Completes("replace") =>
       LET id == ret'.id
           new_text == ret'.arg
           before == SlabGet(buffers, id)
           after == SlabGet(buffers', id)
           hb_font == fonts_id_prop[before.font_id].hb_font
       IN /\ pc' = "idle"
          /\ SlabKeys(buffers') = SlabKeys(buffers)
          /\ IsSome(before.buffer)
          /\ IsSome(after.buffer)
          /\ after.text = new_text
          /\ unwrap(after.buffer) = hb_shape(hb_font, new_text)
          /\ after.count = before.count
          /\ after.font_id = before.font_id
          /\ after.transform = before.transform
          /\ \A k \in SlabKeys(buffers) \ {id} :
               SlabGet(buffers', k) = SlabGet(buffers, k)
          /\ UNCHANGED <<fonts, fonts_fingerprint_id, fonts_id_prop, clientVars>>
          /\ C13_RunOf(buffer_glyphs(Container', id, <<>>).out, hb_font, new_text)
  /\ (Completes("glyphs") /\ ret.op = "replace" /\ ret'.id = ret.id) =>
       C13_RunOf(ret'.out, fonts_id_prop[ret'.font_id].hb_font, ret.arg)

C13_Replace ==
  /\ [](\A k \in SlabKeys(buffers) : IsSome(SlabGet(buffers, k).buffer))
  /\ [][C13_Step]_vars

C13_Witness ==
  /\ pc = "idle"
  /\ ret.op = "replace"
  /\ Len(ret.arg) > Len(ret.out)
  /\ SlabGet(buffers, ret.id).text = ret.arg
  /\ SlabGet(buffers, ret.id).count = 2
  /\ Cardinality(SlabKeys(buffers)) = 2

\* the glyph positions of an entry's cached GlyphBuffer, in shaping order
C14_Run(data) ==
  LET glyph_buffer == unwrap(data.buffer)
  IN [i \in 1..Len(glyph_buffer.infos) |->
        [id |-> glyph_buffer.infos[i].codepoint,
         cluster |-> glyph_buffer.infos[i].cluster,
         x_advance |-> glyph_buffer.positions[i].x_advance,
         y_advance |-> glyph_buffer.positions[i].y_advance,
         x_offset |-> glyph_buffer.positions[i].x_offset,
         y_offset |-> glyph_buffer.positions[i].y_offset]]

\* what a glyphs call added to the vector it was given
C14_Delivered(r) == SubSeq(r.out, Len(r.arg) + 1, Len(r.out))

\* C14 as stated: after Buffer::glyphs the output argument holds exactly the
\* buffer's cached shaped run.
C14_OutputIsRun ==
  (pc = "idle" /\ ret.op = "glyphs") =>
     ret.out = C14_Run(SlabGet(buffers, ret.id))

\* C14 as amended: Buffer::glyphs appends the buffer's cached shaped run, in
\* shaping order and in full, to what the output argument held (so the
\* output is exactly the run when it was empty); a repeated call appends
\* the same sequence again, and no call changes a table, a handle or the
\* borrow flag.
C14_Step ==
  /\ Completes("glyphs") =>
       LET data == SlabGet(buffers, ret'.id)
           run == C14_Run(data)
       IN /\ pc' = "idle"
          /\ UNCHANGED <<tables, clientVars, borrow>>
          /\ ret'.out = ret'.arg \o run
          /\ C14_Delivered(ret') = run
          /\ Len(run) = Len(data.text)
          /\ C13_RunOf(run, fonts_id_prop[data.font_id].hb_font, data.text)
          /\ ret'.arg = <<>> => ret'.out = run
  /\ (Completes("glyphs") /\ ret.op = "glyphs" /\ ret'.id = ret.id) =>
       C14_Delivered(ret') = C14_Delivered(ret)

C14_GlyphsAppends == [][C14_Step]_vars

C14_Witness ==
  /\ pc = "idle"
  /\ ret.op = "glyphs"
  /\ Len(ret.arg) = 2
  /\ ret.out = ret.arg \o ret.arg
  /\ ret.arg = C14_Run(SlabGet(buffers, ret.id))

\* points the transforms are compared on
C15_Points == 0..2

C16_Step ==
  /\ Completes("font_from_id") =>
       /\ pc' = "idle"
       /\ IF ret'.kind = "Some"
          THEN /\ ret'.font_id = ret'.arg
               /\ C11_FontOnly(ret'.arg, 1)
               /\ fontHandles' = BagAdd(fontHandles, ret'.arg)
               /\ UNCHANGED <<bufHandles, weakRefs>>
          ELSE /\ ret'.kind = "None"
               /\ ~FontLive(ret'.arg)
               /\ UNCHANGED <<tables, clientVars>>
  /\ Completes("buffer_from_id") =>
       /\ pc' = "idle"
       /\ ret'.kind = "None"
       /\ ~BufferLive(ret'.arg)
       /\ UNCHANGED <<tables, clientVars>>
  /\ (pc = "idle" /\ pc' = "buffer_from_id_font") =>
       /\ C10_BufferCounter(cur'.id, 1)
       /\ cur'.font_id = SlabGet(buffers, cur'.id).font_id
       /\ UNCHANGED clientVars
  /\ pc = "buffer_from_id_font" =>
       /\ pc' = "idle"
       /\ ret'.op = "buffer_from_id"
       /\ ret'.kind = "Some"
       /\ ret'.id = cur.id
       /\ ret'.font_id = cur.font_id
       /\ C11_FontOnly(cur.font_id, 1)
       /\ bufHandles' = BagAdd(bufHandles, BufferHandle(cur.id, cur.font_id))
       /\ UNCHANGED <<fontHandles, weakRefs>>

C16_LookupAllOrNothing == [][C16_Step]_vars

C16_Witness ==
  /\ pc = "idle"
  /\ ret.op = "buffer_from_id"
  /\ ret.kind = "Some"
  /\ ret.id # ret.font_id
  /\ BufferCount(ret.id) = 2
  /\ FontCount(ret.font_id) = 2
  /\ fontHandles = EmptyBag

C17_ReadOps ==
  {"glyphs", "get_buffer_transform", "weak_ref", "full_name", "glyph_count",
   "outline"}
C17_MutOps ==
  {"find_best_match", "font_from_id", "buffer_from_id", "create_buffer",
   "font_clone", "font_drop", "buffer_clone", "buffer_drop"}

\* C17: the reading operations succeed whatever number of shared borrows
\* (Font::outline calls whose path builder is running) is outstanding, and
\* change no table, entry, refcount or owning handle; a step writes to the
\* tables only with no reading operation in progress, under the exclusive
\* borrow its operation took, and a mutating operation called while a
\* shared borrow is outstanding stops at borrow_mut without having written.
C17_Inv ==
  /\ borrow \in -1..MaxNest
  /\ pc = "idle" => borrow = Len(cur.outlines)
  /\ pc \in {"buffer_from_id_font", "Buffer_clone_inc_font"} =>
       borrow = -1 /\ cur.outlines = <<>>
  /\ pc \in {"Buffer_new", "Buffer_drop_font"} =>
       borrow = 0 /\ cur.outlines = <<>>

C17_Step ==
  /\ \A op \in C17_ReadOps :
       Completes(op) =>
         /\ pc' = "idle"
         /\ borrow >= 0
         /\ borrow' \in {borrow - 1, borrow, borrow + 1}
         /\ UNCHANGED <<tables, fontHandles, bufHandles>>
  /\ tables' # tables =>
       /\ borrow \in {0, -1}
       /\ cur.outlines = <<>>
       /\ pc = "idle" => borrow = 0
  /\ \A op \in C17_MutOps :
       (Completes(op) /\ borrow # 0) =>
         /\ pc' = "aborted"
         /\ ret'.msg = BorrowMutError
         /\ UNCHANGED tables

C17_SharedAndExclusive == []C17_Inv /\ [][C17_Step]_vars

C17_Witness ==
  /\ pc = "idle"
  /\ borrow = 2
  /\ ret.op = "glyphs"
  /\ ret.out # <<>>
  /\ Len(cur.outlines) = 2

\* C18: a lookup through a weak reference never aliases.  The entry a
\* BufferRef was taken from keeps its id while it lives, and an entry
\* created after it was evicted is another entry; so the claim says of
\* buffers: once the buffer entry of a weak reference is gone,
\* buffer_from_id on the reference's id returns no handle in any later
\* state.
C18_NoAlias ==
  [][\A w \in weakRefs :
       ~BufferLive(w.id) =>
          get_and_inc_buffer(Container', w.id).kind = "None"]_vars

\* C19: wherever a step of an operation asks for access to the container
\* (at the start of an operation, in Buffer::new after the Font was cloned,
\* in the drop of a Buffer's Font after Buffer::drop returned) the borrow
\* flag is 0, and the second statements of buffer_from_id and of Buffer
\* clone run under the guard their first statement took; so no operation
\* stops with a BorrowMutError or BorrowError.  A step that erases a buffer
\* entry writes no font table and a step that erases a font entry no buffer:
\* eviction drops no handle.
C19_Inv ==
  /\ pc \in {"idle", "Buffer_new", "Buffer_drop_font"} => borrow = 0
  /\ pc \in {"buffer_from_id_font", "Buffer_clone_inc_font"} => borrow = -1
  /\ pc = "aborted" => ret.msg \notin {BorrowMutError, BorrowError}

C19_Step ==
  /\ pc \in {"Buffer_new", "Buffer_drop_font"} => pc' = "idle"
  /\ (pc = "idle" /\ pc' = "aborted") => ret'.msg = Unimplemented
  /\ SlabKeys(buffers') # SlabKeys(buffers) =>
       UNCHANGED <<fonts, fonts_fingerprint_id, fonts_id_prop>>
  /\ SlabKeys(fonts') # SlabKeys(fonts) => buffers' = buffers

C19_NoReentry == []C19_Inv /\ [][C19_Step]_vars

C19_Witness ==
  /\ pc = "Buffer_drop_font"
  /\ borrow = 0
  /\ ~BufferLive(cur.id)
  /\ FontCount(cur.font_id) = 1
  /\ Len(buffers.entries) = 2

\* the messages of the lookups that expect a live entry
C20_ShouldExist ==
  {"full_name: loaded font should exist",
   "glyph_count: loaded font should exist",
   "outline: loaded font should exist",
   "FontsContainer::create_buffer - self.get(font_id)",
   "buffer_glyph_ids: self.buffers.get(buffer_id)",
   "expected glyph buffer to always contain glyph output",
   "invalid key",
   "inc_buffer: self.buffers.get_mut(id)",
   "dec_buffer: self.buffers.get_mut(id)",
   "inc_font: self.fonts_id_prop.get_mut(&id)",
   "dec_font: self.fonts.get_mut(id)",
   "delete_font: self.fonts_id_prop[&id]",
   "attempt to subtract with overflow"}

\* C20: in every state each Font handle (the client's, the one inside each
\* Buffer handle, and the one an operation in progress owns) has a live font
\* entry and each Buffer handle a live buffer entry holding a shaped run;
\* so every method a handle can call with its id finds its entry, and no
\* operation has stopped in one of the lookups that expect a live entry.
C20_HandlesLive ==
  /\ \A id \in BagToSet(fontHandles) :
       /\ FontLive(id)
       /\ get(Container, id)
       /\ inc_font(Container, id).kind # "panic"
       /\ dec_font(Container, id).kind # "panic"
       /\ \A text \in Texts : create_buffer(Container, id, text).kind # "panic"
  /\ \A b \in BagToSet(bufHandles) :
       /\ BufferLive(b.id)
       /\ FontLive(b.font_id)
       /\ buffer_glyphs(Container, b.id, <<>>).kind # "panic"
       /\ \A P \in ParentTransforms :
            get_buffer_transform(Container, b.id, P).kind # "panic"
       /\ inc_buffer(Container, b.id).kind # "panic"
       /\ dec_buffer(Container, b.id).kind # "panic"
       /\ inc_font(Container, b.font_id).kind # "panic"
  /\ pc \in {"Buffer_new", "Buffer_drop_font"} =>
       /\ FontLive(cur.font_id)
       /\ dec_font(Container, cur.font_id).kind # "panic"
  /\ pc \in {"buffer_from_id_font", "Buffer_clone_inc_font"} =>
       /\ BufferLive(cur.id)
       /\ inc_font(Container, cur.font_id).kind # "panic"
  /\ pc = "aborted" => ret.msg \notin C20_ShouldExist

C20_Witness ==
  /\ pc = "idle"
  /\ ret.op = "glyphs"
  /\ NumHandles = MaxHandles
  /\ BufferCount(ret.id) = 2
  /\ Len(fonts.entries) = 2
  /\ Cardinality(DOMAIN fonts_id_prop) = 1
  /\ Len(buffers.entries) = 2
  /\ Cardinality(SlabKeys(buffers)) = 1

====
